---- MODULE Spec2Model ----
(***************************************************************************)
(* A model of src/game.py: the board state (BoardState), the move rules    *)
(* (Rules) and the turn loop (GameSimulator.run).                          *)
(*                                                                         *)
(* Arrays keep the 0-based indices of the source: a board is a function    *)
(* 0..11 -> square, a coordinate is the tuple <<col, row>>.                *)
(***************************************************************************)
EXTENDS Integers, FiniteSets, Sequences, TLC

(***************************************************************************)
(* Bounds of the model.                                                    *)
(***************************************************************************)
\* the last round in which a policy is consulted when policies are free
MaxRound == 2
\* the number of BoardState.update calls made on a stand-alone board
MaxUpdates == 1

(***************************************************************************)
(* BoardState                                                              *)
(***************************************************************************)
N_ROWS == 8
N_COLS == 7

Pieces == 0 .. 11
Squares == 0 .. 55

LayoutList == <<1, 2, 3, 4, 5, 3, 50, 51, 52, 53, 54, 52>>

\* np.array([1, 2, 3, 4, 5, 3, 50, 51, 52, 53, 54, 52])
InitialLayout == [i \in Pieces |-> LayoutList[i + 1]]

encode_single_pos(cr) == cr[2] * N_COLS + cr[1]

decode_single_pos_rows(n) == <<n % N_ROWS, n \div N_ROWS>>

decode_single_pos(n) == <<n % N_COLS, n \div N_COLS>>

\* [self.decode_single_pos(d) for d in self.state]
make_state(st) == [i \in Pieces |-> decode_single_pos(st[i])]

\* a test of the decoded column where the row is meant
is_termination_state_cols(st) ==
    LET white_ball_coord == decode_single_pos(st[5])
        black_ball_coord == decode_single_pos(st[11])
    IN  IF white_ball_coord[1] = 7 THEN TRUE
        ELSE IF black_ball_coord[1] = 0 THEN TRUE
        ELSE FALSE

is_termination_state(st) ==
    LET white_ball_coord == decode_single_pos(st[5])
        black_ball_coord == decode_single_pos(st[11])
    IN  IF white_ball_coord[2] = 7 THEN TRUE
        ELSE IF black_ball_coord[2] = 0 THEN TRUE
        ELSE FALSE

is_valid(st) ==
    IF ~(\A i \in Pieces : 0 <= st[i] /\ st[i] <= 55) THEN FALSE
    ELSE IF Cardinality({st[i] : i \in Pieces}) # 12 THEN FALSE
    ELSE TRUE

(***************************************************************************)
(* Rules                                                                   *)
(***************************************************************************)
\* `x in board_state.state`
InState(st, x) == \E i \in Pieces : st[i] = x

\* `x in board_state.state[player_idx * 6: (player_idx + 1) * 6]`
InSlice(st, player_idx, x) ==
    \E i \in (player_idx * 6) .. ((player_idx + 1) * 6 - 1) : st[i] = x

InBounds(c, r) == 0 <= c /\ c < N_COLS /\ 0 <= r /\ r < N_ROWS

possible_moves(col, row) ==
    { <<col + 2, row + 1>>, <<col + 2, row - 1>>,
      <<col - 2, row + 1>>, <<col - 2, row - 1>>,
      <<col + 1, row + 2>>, <<col + 1, row - 2>>,
      <<col - 1, row + 2>>, <<col - 1, row - 2>> }

single_piece_actions_stacking(st, dst, piece_idx) ==
    LET current_pos == dst[piece_idx]
    IN  { encode_single_pos(move) :
            move \in { m \in possible_moves(current_pos[1], current_pos[2]) :
                         InBounds(m[1], m[2]) } }

single_piece_actions_unbounded(st, dst, piece_idx) ==
    LET current_pos == dst[piece_idx]
    IN  { encode_single_pos(move) :
            move \in { m \in possible_moves(current_pos[1], current_pos[2]) :
                         ~InState(st, encode_single_pos(m)) } }

single_piece_actions(st, dst, piece_idx) ==
    LET current_pos == dst[piece_idx]
    IN  { encode_single_pos(move) :
            move \in { m \in possible_moves(current_pos[1], current_pos[2]) :
                         /\ InBounds(m[1], m[2])
                         /\ ~InState(st, encode_single_pos(m)) } }

directions ==
    { <<1, 0>>, <<-1, 0>>, <<0, 1>>, <<0, -1>>,
      <<1, 1>>, <<1, -1>>, <<-1, 1>>, <<-1, -1>> }

\* a ray that collects the empty squares it slides over
RECURSIVE ball_ray_sliding(_, _, _, _, _, _, _)
ball_ray_sliding(st, player_idx, cur_col, cur_row, dcol, drow, valid_moves) ==
    IF ~InBounds(cur_col, cur_row) THEN valid_moves
    ELSE LET encoded_pos == encode_single_pos(<<cur_col, cur_row>>)
         IN  IF InState(st, encoded_pos) THEN valid_moves
             ELSE ball_ray_sliding(st, player_idx, cur_col + dcol, cur_row + drow,
                                   dcol, drow, valid_moves \cup {encoded_pos})

\* the while loop of single_ball_actions along one direction
RECURSIVE ball_ray(_, _, _, _, _, _, _)
ball_ray(st, player_idx, cur_col, cur_row, dcol, drow, valid_moves) ==
    IF ~InBounds(cur_col, cur_row) THEN valid_moves
    ELSE LET encoded_pos == encode_single_pos(<<cur_col, cur_row>>)
         IN  IF InState(st, encoded_pos) THEN valid_moves
             ELSE ball_ray(st, player_idx, cur_col + dcol, cur_row + drow,
                           dcol, drow,
                           IF InSlice(st, player_idx, encoded_pos)
                             THEN valid_moves \cup {encoded_pos}
                             ELSE valid_moves)

single_ball_actions(st, dst, player_idx) ==
    LET ball_idx == IF player_idx = 0 THEN 5 ELSE 11
        ball_pos == dst[ball_idx]
    IN  UNION { ball_ray(st, player_idx, ball_pos[1] + d[1], ball_pos[2] + d[2],
                         d[1], d[2], {}) : d \in directions }

(***************************************************************************)
(* GameSimulator                                                           *)
(***************************************************************************)
\* a loop over range(6) that treats the ball as one more block piece
generate_valid_actions_six(st, dst, player_idx) ==
    LET offset_idx == player_idx * 6
    IN  UNION { { <<i, a>> : a \in single_piece_actions(st, dst, offset_idx + i) } :
                  i \in 0 .. 5 }
        \cup { <<5, a>> : a \in single_ball_actions(st, dst, player_idx) }

generate_valid_actions(st, dst, player_idx) ==
    LET offset_idx == player_idx * 6
    IN  UNION { { <<i, a>> : a \in single_piece_actions(st, dst, offset_idx + i) } :
                  i \in 0 .. 4 }
        \cup { <<5, a>> : a \in single_ball_actions(st, dst, player_idx) }

\* a validation that lets every action through
validate_action_accepting(st, dst, act, player_idx) == TRUE

\* TRUE when validate_action returns True, FALSE when it raises ValueError
validate_action(st, dst, act, player_idx) ==
    act \in generate_valid_actions(st, dst, player_idx)

player_of_round_shifted(round) == (round + 1) % 2

\* player_idx = self.current_round % 2
player_of_round(round) == round % 2

\* lines 195-198: the colour of the player who moved last
WinnerName(p) == IF p = 0 THEN "WHITE" ELSE "BLACK"

\* a write that lands on the other player's entry
update_state_shifted(st, idx, val) == [st EXCEPT ![(idx + 6) % 12] = val]

\* BoardState.update, the positions array
update_state(st, idx, val) == [st EXCEPT ![idx] = val]

\* an update that writes the positions array and leaves the cache alone
update_decode_state_stale(dst, st2, idx) == dst

\* BoardState.update, the decoded cache (st2 is the array after the write)
update_decode_state(dst, st2, idx) ==
    [dst EXCEPT ![idx] = decode_single_pos(st2[idx])]

(***************************************************************************)
(* State.  Two GameSimulator objects exist (Runs); the turn loop of the    *)
(* plain specification drives the first one only.  Board objects are named *)
(* by the simulator that constructed them.                                 *)
(***************************************************************************)
Runs == {1, 2}

VARIABLES
    state,          \* board object -> BoardState.state
    decode_state,   \* board object -> BoardState.decode_state
    current_round,  \* run -> GameSimulator.current_round
    player_idx,     \* run -> local player_idx of run(), Unbound before round 0
    snapshot,       \* run -> the make_state() list handed to the policy
    action,         \* run -> the action the policy returned
    pc,             \* run -> position in run()
    result,         \* run -> the tuple run() returned, NoResult so far
    players,        \* the policies: 0 for free policies, or the number of a book
    n_updates,      \* update calls made on the stand-alone board
    call,           \* the last call made on the stand-alone board
    ret             \* what that call returned

vars == <<state, decode_state, current_round, player_idx, snapshot, action,
          pc, result, players, n_updates, call, ret>>

Unbound == -1
NoAction == <<>>
NoResult == <<>>
NoCall == <<"none">>

game_state_shared(r) == 1

\* self.game_state = BoardState(): every simulator owns the board it built
game_state(r) == r

EngineVars == <<current_round, player_idx, snapshot, action, pc, result>>
BoardVars == <<state, decode_state>>
CallVars == <<n_updates, call, ret>>

InitObjects ==
    /\ state = [b \in Runs |-> InitialLayout]
    /\ decode_state = [b \in Runs |-> [i \in Pieces |-> decode_single_pos(InitialLayout[i])]]
    /\ current_round = [r \in Runs |-> -1]
    /\ player_idx = [r \in Runs |-> Unbound]
    /\ snapshot = [r \in Runs |-> <<>>]
    /\ action = [r \in Runs |-> NoAction]
    /\ pc = [r \in Runs |-> "while"]
    /\ result = [r \in Runs |-> NoResult]
    /\ n_updates = 0
    /\ call = NoCall
    /\ ret = <<>>

Init == InitObjects /\ players = 0

(***************************************************************************)
(* The policies.  A free policy proposes, from the snapshot it is given,   *)
(* any knight jump of one of its runners that stays on the board, a pass   *)
(* of its carrier to one of its own runners or to the opponent's first     *)
(* runner, or a one-square advance of its carrier.                         *)
(***************************************************************************)
Proposals(snap, p) ==
    UNION { { <<i, encode_single_pos(m)>> :
                m \in { mm \in possible_moves(snap[6 * p + i][1], snap[6 * p + i][2]) :
                          InBounds(mm[1], mm[2]) } } : i \in 0 .. 4 }
    \cup { <<5, encode_single_pos(snap[j])>> :
             j \in ((6 * p) .. (6 * p + 4)) \cup {6 * (1 - p)} }
    \cup { <<5, encode_single_pos(snap[6 * p + 5]) + (IF p = 0 THEN 7 ELSE -7)>> }

(***************************************************************************)
(* GameSimulator.run, one action per step of the loop                      *)
(***************************************************************************)
\* while not self.game_state.is_termination_state(): ... and the returns
\* after the loop (player_idx is unbound when the loop body never ran)
WhileTest(r) ==
    /\ pc[r] = "while"
    /\ IF ~is_termination_state(state[game_state(r)])
         THEN /\ pc' = [pc EXCEPT ![r] = "policy"]
              /\ UNCHANGED result
         ELSE IF player_idx[r] = Unbound
         THEN /\ pc' = [pc EXCEPT ![r] = "raised"]
              /\ UNCHANGED result
         ELSE /\ pc' = [pc EXCEPT ![r] = "returned"]
              /\ result' = [result EXCEPT
                     ![r] = <<current_round[r], WinnerName(player_idx[r]), "No issues">>]
    /\ UNCHANGED <<state, decode_state, current_round, player_idx, snapshot,
                   action, players, n_updates, call, ret>>

\* lines 177-181 with a free policy
PolicyCall(r) ==
    /\ pc[r] = "policy"
    /\ players = 0
    /\ current_round[r] < MaxRound
    /\ current_round' = [current_round EXCEPT ![r] = @ + 1]
    /\ player_idx' = [player_idx EXCEPT ![r] = player_of_round(current_round'[r])]
    /\ snapshot' = [snapshot EXCEPT ![r] = make_state(state[game_state(r)])]
    /\ \E a \in Proposals(snapshot'[r], player_idx'[r]) :
          action' = [action EXCEPT ![r] = a]
    /\ pc' = [pc EXCEPT ![r] = "validate"]
    /\ UNCHANGED <<state, decode_state, result, players, n_updates, call, ret>>

\* line 184: validate_action returns True or raises ValueError, which run()
\* does not catch; the locals of run() are gone once it has raised
ValidateAction(r) ==
    /\ pc[r] = "validate"
    /\ IF validate_action(state[game_state(r)], decode_state[game_state(r)],
                          action[r], player_idx[r])
         THEN /\ pc' = [pc EXCEPT ![r] = "update"]
              /\ UNCHANGED <<action, snapshot>>
         ELSE /\ pc' = [pc EXCEPT ![r] = "raised"]
              /\ action' = [action EXCEPT ![r] = NoAction]
              /\ snapshot' = [snapshot EXCEPT ![r] = <<>>]
    /\ UNCHANGED <<state, decode_state, current_round, player_idx, result,
                   players, n_updates, call, ret>>

\* line 192: self.update(action, player_idx); action and the snapshot are
\* not read again before line 181 overwrites them
Update(r) ==
    /\ pc[r] = "update"
    /\ LET b == game_state(r)
           offset_idx == player_idx[r] * 6
           idx == action[r][1]
           pos == action[r][2]
           st2 == update_state(state[b], offset_idx + idx, pos)
       IN  /\ state' = [state EXCEPT ![b] = st2]
           /\ decode_state' = [decode_state EXCEPT
                  ![b] = update_decode_state(decode_state[b], st2, offset_idx + idx)]
    /\ action' = [action EXCEPT ![r] = NoAction]
    /\ snapshot' = [snapshot EXCEPT ![r] = <<>>]
    /\ pc' = [pc EXCEPT ![r] = "while"]
    /\ UNCHANGED <<current_round, player_idx, result, players, n_updates, call, ret>>

Next ==
    \/ WhileTest(1)
    \/ PolicyCall(1)
    \/ ValidateAction(1)
    \/ Update(1)

Spec == Init /\ [][Next]_vars

(***************************************************************************)
(* Book policies: a deterministic policy that looks the snapshot up in the *)
(* positions of a fixed line of play and answers with the line's next      *)
(* action, or with Resign when the snapshot is not in its book.            *)
(***************************************************************************)
Resign == <<0, 0>>

\* White brings runner 2 to (3,4) and runner 0 to (0,7) by knight jumps and
\* passes the carrier 3 -> 31 -> 49; Black shuttles runner 4 between 54 and 41.
WinLine ==
    << <<2, 18>>, <<4, 41>>, <<2, 31>>, <<4, 54>>, <<5, 31>>, <<4, 41>>,
       <<0, 14>>, <<4, 54>>, <<0, 29>>, <<4, 41>>, <<0, 44>>, <<4, 54>>,
       <<0, 49>>, <<4, 41>>, <<5, 49>> >>

\* White's first proposal passes the carrier to a black runner's square
ForfeitLine == << <<5, 50>> >>

\* two knight jumps, then Black is out of book
ShortLine == << <<0, 16>>, <<2, 37>>, <<1, 17>> >>

\* Black jumps onto an occupied square in round 1
BlunderLine == << <<4, 18>>, <<1, 53>> >>

Books == <<WinLine, ForfeitLine, ShortLine, BlunderLine>>

\* the positions array after the first j actions of a line
RECURSIVE BoardAfter(_, _)
BoardAfter(line, j) ==
    IF j = 0 THEN InitialLayout
    ELSE update_state(BoardAfter(line, j - 1),
                      6 * player_of_round(j - 1) + line[j][1], line[j][2])

BookPolicy(k, p, snap) ==
    LET line == Books[k]
        known == { j \in 0 .. (Len(line) - 1) :
                     j % 2 = p /\ make_state(BoardAfter(line, j)) = snap }
    IN  IF known = {} THEN Resign
        ELSE line[(CHOOSE j \in known : \A j2 \in known : j <= j2) + 1]

\* lines 177-181 with a book policy
PolicyCallBook(r) ==
    /\ pc[r] = "policy"
    /\ players # 0
    /\ current_round' = [current_round EXCEPT ![r] = @ + 1]
    /\ player_idx' = [player_idx EXCEPT ![r] = player_of_round(current_round'[r])]
    /\ snapshot' = [snapshot EXCEPT ![r] = make_state(state[game_state(r)])]
    /\ action' = [action EXCEPT
           ![r] = BookPolicy(players, player_idx'[r], snapshot'[r])]
    /\ pc' = [pc EXCEPT ![r] = "validate"]
    /\ UNCHANGED <<state, decode_state, result, players, n_updates, call, ret>>

InitPolicies == InitObjects /\ players \in 1 .. Len(Books)

NextPolicies ==
    \E r \in Runs :
        \/ WhileTest(r)
        \/ PolicyCallBook(r)
        \/ ValidateAction(r)
        \/ Update(r)

\* two simulators run the same policies, their steps interleaved in any order
SpecPolicies == InitPolicies /\ [][NextPolicies]_vars

(***************************************************************************)
(* A stand-alone BoardState (board object 1): update calls with sample     *)
(* squares, and calls of the rules on the board they leave.                *)
(***************************************************************************)
UpdateSquares == {0, 6, 7, 10, 16, 17, 24, 31, 42, 45, 48, 49, 55}

RunnerIdx == (0 .. 4) \cup (6 .. 10)

CallUpdate(idx, val) ==
    /\ n_updates < MaxUpdates
    /\ n_updates' = n_updates + 1
    /\ LET st2 == update_state(state[1], idx, val)
       IN  /\ state' = [state EXCEPT ![1] = st2]
           /\ decode_state' = [decode_state EXCEPT
                  ![1] = update_decode_state(decode_state[1], st2, idx)]
    /\ call' = <<"update", idx, val>>
    /\ ret' = <<>>
    /\ UNCHANGED <<EngineVars, players>>

CallSinglePieceActions(piece_idx) ==
    /\ call' = <<"single_piece_actions", piece_idx>>
    /\ ret' = single_piece_actions(state[1], decode_state[1], piece_idx)
    /\ UNCHANGED <<BoardVars, EngineVars, players, n_updates>>

CallSingleBallActions(p) ==
    /\ call' = <<"single_ball_actions", p>>
    /\ ret' = single_ball_actions(state[1], decode_state[1], p)
    /\ UNCHANGED <<BoardVars, EngineVars, players, n_updates>>

CallIsTerminationState ==
    /\ call' = <<"is_termination_state">>
    /\ ret' = is_termination_state(state[1])
    /\ UNCHANGED <<BoardVars, EngineVars, players, n_updates>>

NextBoards ==
    \/ \E idx \in Pieces, val \in UpdateSquares : CallUpdate(idx, val)
    \/ \E piece_idx \in RunnerIdx : CallSinglePieceActions(piece_idx)
    \/ \E p \in {0, 1} : CallSingleBallActions(p)
    \/ CallIsTerminationState

SpecBoards == Init /\ [][NextBoards]_vars

(***************************************************************************)
(* The simulator's action set and validation, called on the board of       *)
(* simulator 1 after update calls; the actions validated are some of the   *)
(* proposals a free policy may make on that board.                         *)
(***************************************************************************)
CallGenerateValidActions(p) ==
    /\ call' = <<"generate_valid_actions", p>>
    /\ ret' = generate_valid_actions(state[game_state(1)], decode_state[game_state(1)], p)
    /\ UNCHANGED <<BoardVars, EngineVars, players, n_updates>>

\* validate_action returns True or raises ValueError
CallValidateAction(act, p) ==
    /\ call' = <<"validate_action", act, p>>
    /\ ret' = IF validate_action(state[game_state(1)], decode_state[game_state(1)], act, p)
                THEN <<"return", TRUE>>
                ELSE <<"raise", "ValueError">>
    /\ UNCHANGED <<BoardVars, EngineVars, players, n_updates>>

\* the actions validated: of a free policy's proposals, the jumps of block
\* piece 0 and the ball's passes to the player's block piece 1, to the
\* opponent's block piece 0 and one square ahead
ActionSamples(snap, p) ==
    { a \in Proposals(snap, p) :
        \/ a[1] = 0
        \/ /\ a[1] = 5
           /\ a[2] \in { encode_single_pos(snap[6 * p + 1]),
                          encode_single_pos(snap[6 * (1 - p)]),
                          encode_single_pos(snap[6 * p + 5]) + (IF p = 0 THEN 7 ELSE -7) } }

\* Both calls leave the board as it is, so a second call on a board reaches
\* nothing a first call does not: a behaviour makes one after its updates.
NoQueryYet == call[1] \in {"none", "update"}

NextActions ==
    \/ /\ NoQueryYet
       /\ \E idx \in Pieces, val \in UpdateSquares : CallUpdate(idx, val)
    \/ /\ NoQueryYet
       /\ \E p \in {0, 1} : CallGenerateValidActions(p)
    \/ /\ NoQueryYet
       /\ \E p \in {0, 1} :
             \E act \in ActionSamples(make_state(state[game_state(1)]), p) :
                CallValidateAction(act, p)

SpecActions == Init /\ [][NextActions]_vars

(***************************************************************************)
(* The position codec, called on every square and every coordinate         *)
(***************************************************************************)
Coordinates == (0 .. (N_COLS - 1)) \X (0 .. (N_ROWS - 1))

CallEncode(cr) ==
    /\ call' = <<"encode_single_pos", cr>>
    /\ ret' = encode_single_pos(cr)
    /\ UNCHANGED <<BoardVars, EngineVars, players, n_updates>>

CallDecode(n) ==
    /\ call' = <<"decode_single_pos", n>>
    /\ ret' = decode_single_pos(n)
    /\ UNCHANGED <<BoardVars, EngineVars, players, n_updates>>

NextCodec ==
    \/ \E cr \in Coordinates : CallEncode(cr)
    \/ \E n \in Squares : CallDecode(n)

SpecCodec == Init /\ [][NextCodec]_vars

(***************************************************************************)
(* Properties                                                              *)
(***************************************************************************)
Abs(x) == IF x < 0 THEN -x ELSE x
Sgn(x) == IF x < 0 THEN -1 ELSE IF x > 0 THEN 1 ELSE 0
Cheb(a, b) == IF Abs(b[1] - a[1]) > Abs(b[2] - a[2])
                THEN Abs(b[1] - a[1]) ELSE Abs(b[2] - a[2])
ColOf(s) == s % N_COLS
RowOf(s) == s \div N_COLS
CoordOf(s) == <<ColOf(s), RowOf(s)>>
RunnersOf(p) == (6 * p) .. (6 * p + 4)
CarrierOf(p) == 6 * p + 5
Stopped(r) == pc[r] \in {"returned", "raised"}

\* b lies on one of the 8 queen rays from a
OnQueenRay(a, b) ==
    /\ a # b
    /\ \/ a[1] = b[1]
       \/ a[2] = b[2]
       \/ Abs(b[1] - a[1]) = Abs(b[2] - a[2])

\* the coordinates strictly between a and b on the ray from a through b
StrictlyBetween(a, b) ==
    { c \in Coordinates :
        /\ OnQueenRay(a, c)
        /\ Sgn(c[1] - a[1]) = Sgn(b[1] - a[1])
        /\ Sgn(c[2] - a[2]) = Sgn(b[2] - a[2])
        /\ Cheb(a, c) < Cheb(a, b) }

\* the squares a pass of p's carrier may land on: on a queen ray, nothing
\* in between, one of p's own runners on it
PassTargets(st, p) ==
    { s \in Squares :
        /\ OnQueenRay(CoordOf(st[CarrierOf(p)]), CoordOf(s))
        /\ \A c \in StrictlyBetween(CoordOf(st[CarrierOf(p)]), CoordOf(s)) :
              \A i \in Pieces : CoordOf(st[i]) # c
        /\ \E i \in RunnersOf(p) : st[i] = s }

\* the squares a knight jump away from piece idx that no piece stands on
KnightTargets(st, idx) ==
    { s \in Squares :
        /\ Abs(ColOf(s) - ColOf(st[idx])) * Abs(RowOf(s) - RowOf(st[idx])) = 2
        /\ \A i \in Pieces : st[i] # s }

\* Supporting facts about the code, which decide C1 and C9 for every line of
\* play and not only for WinLine: single_ball_actions returns no square at
\* all, so no carrier ever leaves its home square and run() never returns.
BallActionsEmpty == call[1] = "single_ball_actions" => ret = {}

CarriersStayHome ==
    \A b \in Runs : state[b][5] = 3 /\ state[b][11] = 52

RunNeverReturns ==
    \A r \in Runs : pc[r] # "returned" /\ result[r] = NoResult

\* C1: the game can end by a carrier reaching the opposing back row: when
\* both policies play WinLine, a line of play that is legal by the rules and
\* puts White's carrier on row 7 in round 14, every action is accepted and
\* run() returns (14, "WHITE", "No issues") with the board terminal.
C1_WinLineEndsGame ==
    \A r \in Runs :
        (players = 1 /\ Stopped(r)) =>
            /\ pc[r] = "returned"
            /\ is_termination_state(state[game_state(r)])
            /\ result[r] = <<14, "WHITE", "No issues">>

\* C2: single_ball_actions returns exactly the squares on a queen ray from
\* the carrier, with nothing in between, that hold one of the player's own
\* runners; from the initial layout, for player 0, the squares 2 and 4.
C2_CarrierMovesExact ==
    call[1] = "single_ball_actions" =>
        /\ ret = PassTargets(state[1], call[2])
        /\ (state[1] = InitialLayout /\ call[2] = 0) => ret = {2, 4}

\* C3: every destination single_ball_actions returns holds one of the
\* player's own runners: none is an empty or an opponent-occupied square.
C3_CarrierMovesOnOwnRunners ==
    call[1] = "single_ball_actions" =>
        \A d \in ret : \E i \in RunnersOf(call[2]) : state[1][i] = d

\* player 0's carrier on (0,6), nothing else on column 0, and (0,7) is not
\* among the carrier moves returned
C3_Witness ==
    /\ call = <<"single_ball_actions", 0>>
    /\ state[1][5] = encode_single_pos(<<0, 6>>)
    /\ \A i \in Pieces \ {5} : ColOf(state[1][i]) # 0
    /\ encode_single_pos(<<0, 7>>) \notin ret

\* C4: when the policy's proposal is not a legal action, run() stops and
\* returns (current_round, colour of the other player, reason).
C4_ForfeitDeclaresOtherPlayer ==
    (pc[1] = "raised" /\ current_round[1] >= 0) =>
        /\ Len(result[1]) = 3
        /\ result[1][1] = current_round[1]
        /\ result[1][2] = WinnerName(1 - player_idx[1])

\* C5: a step of the engine never takes a board that satisfies is_valid to
\* one that does not.
C5_ValidStaysValid ==
    [][is_valid(state[1]) => is_valid(state'[1])]_vars

\* runner 2 has jumped twice (rounds 0 and 2), black's runner 2 once (round
\* 1): the board was valid after round 1 and is valid after round 2
C5_Witness ==
    /\ is_valid(state[1])
    /\ state[1][2] = 31
    /\ current_round[1] = 2
    /\ pc[1] = "while"

\* C6: single_piece_actions returns exactly the squares a knight jump away
\* from the runner, on the board, that no piece stands on.
C6_RunnerMovesExact ==
    call[1] = "single_piece_actions" =>
        ret = KnightTargets(state[1], call[2])

\* runner 0 on (1,0), another piece on its knight square 16, which is left
\* out of the moves returned while the free ones are in
C6_Witness ==
    /\ call = <<"single_piece_actions", 0>>
    /\ state[1][0] = 1
    /\ \E i \in Pieces : state[1][i] = 16
    /\ ret = {10, 14}

\* C7: encode_single_pos and decode_single_pos are inverse to each other on
\* the squares 0..55 and the coordinates of the board.
C7_CodecRoundTrip ==
    /\ call[1] = "decode_single_pos" => encode_single_pos(ret) = call[2]
    /\ call[1] = "encode_single_pos" => decode_single_pos(ret) = call[2]

C7_Witness ==
    /\ call = <<"decode_single_pos", 55>>
    /\ ret = <<6, 7>>

\* C8: the round counter starts before round 0 and goes up by one at each
\* policy call and only there; the player consulted in round r, and the
\* owner of the only piece an update moves in round r, is player r mod 2.
C8_State ==
    /\ current_round[1] >= -1
    /\ current_round[1] = -1 => (pc[1] \in {"while", "policy"} /\ state[1] = InitialLayout)
    /\ pc[1] \in {"validate", "update"} =>
          /\ current_round[1] >= 0
          /\ player_idx[1] = current_round[1] % 2
          /\ snapshot[1] = make_state(state[1])

C8_Step ==
    /\ current_round'[1] # current_round[1] =>
          /\ current_round'[1] = current_round[1] + 1
          /\ pc[1] = "policy" /\ pc'[1] = "validate"
    /\ (pc[1] = "policy" /\ pc'[1] = "validate") =>
          current_round'[1] = current_round[1] + 1
    /\ state'[1] # state[1] =>
          /\ current_round'[1] = current_round[1]
          /\ pc[1] = "update" /\ pc'[1] = "while"
          /\ \E i \in Pieces :
                /\ i \div 6 = current_round[1] % 2
                /\ \A j \in Pieces \ {i} : state'[1][j] = state[1][j]

C8_TurnsAlternate == [](C8_State) /\ [][C8_Step]_vars

\* round 2 has been played: White, Black and White again have moved
C8_Witness ==
    /\ current_round[1] = 2
    /\ pc[1] = "while"
    /\ state[1][0] # 1
    /\ state[1][6] # 50
    /\ state[1][1] # 2

C11_CacheMirrorsPositions ==
    /\ \A b \in Runs : \A i \in Pieces :
          decode_state[b][i] = <<state[b][i] % 7, state[b][i] \div 7>>
    /\ \A r \in Runs :
          pc[r] \in {"validate", "update"} => snapshot[r] = decode_state[game_state(r)]

\* round 2, a policy holds its snapshot, and two updates have been applied
C11_Witness ==
    /\ pc[1] = "validate"
    /\ current_round[1] = 2
    /\ state[1][0] # 1
    /\ state[1][6] # 50
    /\ snapshot[1][0] = decode_state[1][0]

\* action a is legal for player p: a block piece with one of its moves, or
\* the ball with one of its moves
IsLegal(b, p, a) ==
    \/ /\ a[1] \in 0 .. 4
       /\ a[2] \in single_piece_actions(state[b], decode_state[b], 6 * p + a[1])
    \/ /\ a[1] = 5
       /\ a[2] \in single_ball_actions(state[b], decode_state[b], p)

\* the legal actions of player p as a set, the moves of each piece computed once
LegalActions(b, p) ==
    LET runnerMoves == [i \in 0 .. 4 |->
                          single_piece_actions(state[b], decode_state[b], 6 * p + i)]
        carrierMoves == single_ball_actions(state[b], decode_state[b], p)
    IN  { a \in (0 .. 5) \X Squares :
            \/ a[1] <= 4 /\ a[2] \in runnerMoves[a[1]]
            \/ a[1] = 5 /\ a[2] \in carrierMoves }

\* C12: generate_valid_actions returns exactly the actions (i, d) with i in
\* 0..4 and d a move of block piece 6p+i, and (5, d) with d a move of the
\* ball; validate_action returns True exactly for the members of that set
\* and raises otherwise.
C12_LegalSetAndValidation ==
    /\ call[1] = "generate_valid_actions" => ret = LegalActions(1, call[2])
    /\ call[1] = "validate_action" =>
          IF IsLegal(1, call[3], call[2])
            THEN ret = <<"return", TRUE>>
            ELSE ret = <<"raise", "ValueError">>

\* after an update put a piece on 16, player 0's set is returned: runner 0
\* may jump to 10 and 14 but not to 16, and the ball has no action
C12_Witness ==
    /\ call = <<"generate_valid_actions", 0>>
    /\ n_updates = 1
    /\ \E i \in Pieces : state[1][i] = 16
    /\ <<0, 10>> \in ret /\ <<0, 14>> \in ret /\ <<0, 16>> \notin ret
    /\ \A a \in ret : a[1] # 5

\* C13: applying the validated action (relative index, destination) of
\* player p writes destination into entry 6p + relative index of the
\* positions array, changes that entry, and leaves the other 11 entries,
\* all of the opponent's among them, as they are; nothing else writes the
\* array.
C13_Step ==
    /\ pc[1] = "update" =>
          LET k == 6 * player_idx[1] + action[1][1]
          IN  /\ k \in Pieces
              /\ state'[1][k] = action[1][2]
              /\ state'[1][k] # state[1][k]
              /\ \A j \in Pieces \ {k} : state'[1][j] = state[1][j]
              /\ \A j \in Pieces : j \div 6 # player_idx[1] => state'[1][j] = state[1][j]
    /\ state'[1] # state[1] => pc[1] = "update"

C13_AppliedActionFrame == [][C13_Step]_vars

\* round 1 has been applied: one white and one black entry differ from the
\* initial layout
C13_Witness ==
    /\ current_round[1] = 1
    /\ pc[1] = "while"
    /\ Cardinality({ j \in 0 .. 5 : state[1][j] # InitialLayout[j] }) = 1
    /\ Cardinality({ j \in 6 .. 11 : state[1][j] # InitialLayout[j] }) = 1

\* C14: is_termination_state is true exactly when piece 5 stands on one of
\* the squares 49..55 or piece 11 on one of the squares 0..6, wherever the
\* ten block pieces stand; it is false on the initial layout.
C14_TerminalIff ==
    call[1] = "is_termination_state" =>
        /\ ret = (state[1][5] \in 49 .. 55 \/ state[1][11] \in 0 .. 6)
        /\ state[1] = InitialLayout => ret = FALSE

\* piece 5 has been put on square 49, the first square of row 7
C14_Witness ==
    /\ call = <<"is_termination_state">>
    /\ state[1][5] = 49
    /\ ret = TRUE

\* C15: the initial layout does not satisfy is_valid, and in every state the
\* engine reaches from it all 12 positions are in 0..55 and two pieces on
\* one square are a carrier and a runner of the same player: no two
\* runners and no two pieces of different players share a square.
C15_OnlyCarrierSharesWithOwnRunner ==
    /\ state[1] = InitialLayout => ~is_valid(state[1])
    /\ \A i \in Pieces : state[1][i] \in 0 .. 55
    /\ \A i, j \in Pieces :
          (i < j /\ state[1][i] = state[1][j]) =>
              /\ i \div 6 = j \div 6
              /\ j % 6 = 5

\* after round 2 White's carrier still shares square 3 with runner 2, two
\* other white runners have jumped, and Black's runner 2 has left square 52
C15_Witness ==
    /\ current_round[1] = 2
    /\ pc[1] = "while"
    /\ state[1][2] = 3 /\ state[1][5] = 3
    /\ state[1][8] # 52 /\ state[1][11] = 52
    /\ state[1][0] # 1 /\ state[1][1] # 2

\* C16: a proposed action that is not legal is never applied: the step that
\* validates it ends the run and leaves the positions array and the decoded
\* cache as they were, the policy call before it left them alone too, and
\* once the run has ended so there is no further policy call or write.
C16_Step ==
    /\ (pc[1] = "validate" /\ ~IsLegal(1, player_idx[1], action[1])) =>
          /\ pc'[1] = "raised"
          /\ state' = state
          /\ decode_state' = decode_state
    /\ pc[1] = "policy" =>
          /\ state' = state
          /\ decode_state' = decode_state
    /\ pc[1] = "raised" =>
          /\ pc'[1] = "raised"
          /\ current_round' = current_round
          /\ state' = state
          /\ decode_state' = decode_state

C16_RejectedActionNotApplied == [][C16_Step]_vars

\* a proposal of round 2 has been rejected on a board two actions have changed
C16_Witness ==
    /\ pc[1] = "raised"
    /\ current_round[1] = 2
    /\ state[1][0] # 1
    /\ state[1][6] # 50
    /\ result[1] = NoResult

====
